---- MODULE Spec2Model ----
(***************************************************************************)
(* Model of the Skyara cost / revenue engine and of the App component      *)
(* that drives it (src/src/App.tsx, src/src/constants.ts, the cost         *)
(* calculator in src/unnamed/part_000, the report in                       *)
(* src/src/utils/pdfExport.ts).                                            *)
(*                                                                         *)
(* Numbers.  The program computes with IEEE doubles; the model computes    *)
(* with exact integers in fixed units, chosen so that every division the   *)
(* program performs on the modelled inputs is exact:                       *)
(*   - a surface (m2) is held in tenths of a square metre (84 m2 = 840,    *)
(*     6.5 m2 = 65);                                                       *)
(*   - an amount of money (DH) is held in hundredths of a dirham;          *)
(*   - a price per m2 and a reference-table amount are held in dirhams,    *)
(*     as written in the source;                                           *)
(*   - a percentage is held as written (20 = 20 %); COS is held in tenths  *)
(*     (2.1 = 21).                                                         *)
(* A quotient that the program only formats for display is held as the     *)
(* pair [num, den]: den = 0 is the division by zero (NaN or an infinity).  *)
(***************************************************************************)
EXTENDS Integers, Sequences, FiniteSets, TLC

VARIABLES
    state,              \* ProjectState held by useState (App.tsx:52)
    calculatedLevels,   \* value memoized by the first useMemo (App.tsx:83)
    totals,             \* value memoized by the second useMemo (App.tsx:102)
    costs,              \* the per-level `cost` of the aggregation's forEach
    view,               \* the ratios the JSX computes while rendering
    report,             \* what generatePDF wrote, NoReport before any export
    pc,                 \* "ui" for the component; the stage of an engine run
    queue               \* the updaters given to setState since the last render

vars == <<state, calculatedLevels, totals, costs, view, report, pc, queue>>

-----------------------------------------------------------------------------
(* constants.ts *)

SURFACE_RULES ==
    [ DEDUCTION_1_FACADE  |-> 160,
      DEDUCTION_2_FACADES |-> 90,
      ENCORBELLEMENT      |-> 65 ]

DEFAULT_PRICES ==
    [ GROS_OEUVRE |-> 1100, FINITION |-> 1100, MAIN_DOEUVRE |-> 250,
      FONDATION_FORFAIT |-> 500, PLATRE |-> 100, CARRELAGE |-> 200,
      PEINTURE |-> 80 ]

DEFAULT_INVESTMENT ==
    [ LAND_PRICE |-> 5000, NOTARY_FEES |-> 50000, MISC_FEES_PERCENT |-> 5,
      SALE_PRICE |-> 12000, STAIRS_DEDUCTION_M2 |-> 120,
      WALLS_DEDUCTION_M2 |-> 80, STATE_TAX |-> 20 ]

DETAILED_COSTS_REF ==
    [ SURFACE_BASE |-> 1000,
      RACCORDEMENT_FIXED |-> 15000,
      FOUNDATION |->
        [ MO |-> 12000, PIERRES |-> 3000, GRAVIER |-> 3500, SABLE |-> 6000,
          CIMENT |-> 12300, FER |-> 10560, DIVERS |-> 2700 ],
      RDC |->
        [ GROS_OEUVRE |->
            [ MO |-> 24000, BRIQUES |-> 12320, GRAVIER |-> 3500,
              SABLE |-> 6000, CIMENT |-> 16080, FER |-> 10560,
              EAU_ELEC |-> 10000, PLANCHER |-> 10000 ],
          FINITION |->
            [ PLATRE |-> 10400, ZELLIGE |-> 19500, MARBRE |-> 11000,
              PEINTURE |-> 8000, ALUMINIUM |-> 10500, SANITAIRES |-> 4000,
              BOIS |-> 8000, FERRONNERIE |-> 10000, CUISINE |-> 15000 ] ],
      FLOOR |->
        [ GROS_OEUVRE |->
            [ MO |-> 24000, BRIQUES |-> 13460, GRAVIER |-> 3500,
              SABLE |-> 6000, CIMENT |-> 16080, FER |-> 10560,
              EAU_ELEC |-> 12000, PLANCHER |-> 11000 ],
          FINITION |->
            [ PLATRE |-> 11700, ZELLIGE |-> 19500, MARBRE |-> 11000,
              PEINTURE |-> 8000, ALUMINIUM |-> 14000, SANITAIRES |-> 4000,
              FERRONNERIE |-> 6000, BOIS |-> 10000, CUISINE |-> 15000 ] ],
      TERRASSE |->
        [ GROS_OEUVRE |->
            [ MO |-> 10000, BRIQUES |-> 5120, CIMENT |-> 4100, FER |-> 6160,
              SABLE |-> 6000 ],
          FINITION |->
            [ ZELLIGE |-> 16500, PEINTURE |-> 8000, FERRONNERIE |-> 2500 ] ] ]

(* types: enum LevelType *)
LevelType ==
    [ FOUNDATION |-> "FOUNDATION", RDC |-> "RDC", FLOOR |-> "FLOOR",
      SOUS_SOL |-> "SOUS_SOL" ]

-----------------------------------------------------------------------------
(* Strings.  A level name is the sequence of its words, written without    *)
(* accents; toLowerCase maps each word, includes(w) looks for the word.    *)
(* An id is the sequence of the parts of its template string: `floor${n}`  *)
(* is <<"floor", n>>.                                                      *)

ToLowerCaseWord(w) ==
    CASE w = "Terrasse"   -> "terrasse"
      [] w = "Fondations" -> "fondations"
      [] w = "Rez-de-chaussee" -> "rez-de-chaussee"
      [] w = "Etage"      -> "etage"
      [] w = "Sous-sol"   -> "sous-sol"
      [] OTHER            -> w

toLowerCase(name) == [i \in DOMAIN name |-> ToLowerCaseWord(name[i])]

includes(name, w) == \E i \in DOMAIN name : name[i] = w

\* level.name.toLowerCase().includes('terrasse')
\* mutant: the name is searched without being lowered first
IsTerrasseNameCaseSensitive(name) == includes(name, "terrasse")

IsTerrasseName(name) == includes(toLowerCase(name), "terrasse")

-----------------------------------------------------------------------------
(* Arithmetic helpers *)

RECURSIVE SumSeq(_)
SumSeq(s) == IF s = <<>> THEN 0 ELSE Head(s) + SumSeq(Tail(s))

Max(a, b) == IF a >= b THEN a ELSE b

RECURSIVE GCD(_, _)
GCD(a, b) == IF b = 0 THEN a ELSE GCD(b, a % b)

\* x * (p / 100), the factors reduced first so that the product stays small
PercentOf(x, p) ==
    LET g == GCD(100, p) IN (x \div (100 \div g)) * (p \div g)

\* amount (DH, for SURFACE_BASE) * ratio, in hundredths of a dirham, where
\* ratio = surface / DETAILED_COSTS_REF.SURFACE_BASE
TimesRatio(amount, surface) ==
    (amount * surface) \div (DETAILED_COSTS_REF.SURFACE_BASE \div 100)

\* amount * 1.2
\* mutant: the 1.2 multiplier is dropped
Times1_2Dropped(amount) == amount

Times1_2(amount) == (amount * 12) \div 10

-----------------------------------------------------------------------------
(* services/costCalculator *)

\* mutant: the entry is put at the head of the array
addCategoryUnshift(categories, name, value) ==
    IF value > 0 THEN <<[name |-> name, value |-> value]>> \o categories
    ELSE categories

\* addCategory: only a strictly positive value is pushed
addCategory(categories, name, value) ==
    IF value > 0 THEN Append(categories, [name |-> name, value |-> value])
    ELSE categories

CostBreakdown(go, fin, mo, materials, equipment, finishing, categories) ==
    [ grosOeuvre |-> go,
      finition   |-> fin,
      total      |-> go + fin,
      details    |-> [ mo |-> mo, materials |-> materials,
                       equipment |-> equipment, finishing |-> finishing ],
      categories |-> categories ]

\* mutant: the connection fee is booked in the foundation's gros oeuvre
FoundationCostWithFee(surface) ==
    LET ref == DETAILED_COSTS_REF.FOUNDATION
        mo == TimesRatio(ref.MO, surface)
        materials == TimesRatio(ref.PIERRES + ref.GRAVIER + ref.SABLE
                                + ref.CIMENT + ref.FER + ref.DIVERS, surface)
        go == mo + materials + DETAILED_COSTS_REF.RACCORDEMENT_FIXED * 100
        c1 == addCategory(<<>>, "Main d'oeuvre", mo)
        c2 == addCategory(c1, "Materiaux (Ciment, Fer, Pierres...)", materials)
    IN  CostBreakdown(go, 0, mo, materials, 0, 0, c2)

FoundationCost(surface) ==
    LET ref == DETAILED_COSTS_REF.FOUNDATION
        mo == TimesRatio(ref.MO, surface)
        materials == TimesRatio(ref.PIERRES + ref.GRAVIER + ref.SABLE
                                + ref.CIMENT + ref.FER + ref.DIVERS, surface)
        go == mo + materials
        c1 == addCategory(<<>>, "Main d'oeuvre", mo)
        c2 == addCategory(c1, "Materiaux (Ciment, Fer, Pierres...)", materials)
    IN  CostBreakdown(go, 0, mo, materials, 0, 0, c2)

\* mutant: the water and electricity item is left out of the gros oeuvre
StoreyCostNoEquipment(table, surface) ==
    LET refGO == table.GROS_OEUVRE
        refFIN == table.FINITION
        mo == TimesRatio(refGO.MO, surface)
        materials == TimesRatio(refGO.BRIQUES + refGO.GRAVIER + refGO.SABLE
                                + refGO.CIMENT + refGO.FER + refGO.PLANCHER,
                                surface)
        finishing == TimesRatio(refFIN.PLATRE + refFIN.ZELLIGE + refFIN.MARBRE
                                + refFIN.PEINTURE + refFIN.ALUMINIUM
                                + refFIN.SANITAIRES + refFIN.BOIS
                                + refFIN.FERRONNERIE + refFIN.CUISINE, surface)
        c1 == addCategory(<<>>, "Main d'oeuvre", mo)
        c2 == addCategory(c1, "Materiaux Gros Oeuvre", materials)
        c4 == addCategory(c2, "Finitions (Zellige, Peinture...)", finishing)
    IN  CostBreakdown(mo + materials, finishing, mo, materials, 0, finishing, c4)

\* the RDC and FLOOR cases have the same shape over their own sub-table
StoreyCost(table, surface) ==
    LET refGO == table.GROS_OEUVRE
        refFIN == table.FINITION
        mo == TimesRatio(refGO.MO, surface)
        materials == TimesRatio(refGO.BRIQUES + refGO.GRAVIER + refGO.SABLE
                                + refGO.CIMENT + refGO.FER + refGO.PLANCHER,
                                surface)
        equipment == TimesRatio(refGO.EAU_ELEC, surface)
        finishing == TimesRatio(refFIN.PLATRE + refFIN.ZELLIGE + refFIN.MARBRE
                                + refFIN.PEINTURE + refFIN.ALUMINIUM
                                + refFIN.SANITAIRES + refFIN.BOIS
                                + refFIN.FERRONNERIE + refFIN.CUISINE, surface)
        go == mo + materials + equipment
        fin == finishing
        c1 == addCategory(<<>>, "Main d'oeuvre", mo)
        c2 == addCategory(c1, "Materiaux Gros Oeuvre", materials)
        c3 == addCategory(c2, "Eau & Electricite", equipment)
        c4 == addCategory(c3, "Finitions (Zellige, Peinture...)", finishing)
    IN  CostBreakdown(go, fin, mo, materials, equipment, finishing, c4)

SousSolCost(surface) ==
    LET refGO == DETAILED_COSTS_REF.RDC.GROS_OEUVRE
        mo == TimesRatio(Times1_2(refGO.MO), surface)
        materials == TimesRatio(Times1_2(refGO.BRIQUES + refGO.GRAVIER
                                         + refGO.SABLE + refGO.CIMENT
                                         + refGO.FER + refGO.PLANCHER),
                                surface)
        go == mo + materials
        c1 == addCategory(<<>>, "Main d'oeuvre", mo)
        c2 == addCategory(c1, "Materiaux", materials)
    IN  CostBreakdown(go, 0, mo, materials, 0, 0, c2)

\* baseSurface is accepted and never read
calculateLevelCost(type, surface, baseSurface) ==
    CASE type = LevelType.FOUNDATION -> FoundationCost(surface)
      [] type = LevelType.RDC   -> StoreyCost(DETAILED_COSTS_REF.RDC, surface)
      [] type = LevelType.FLOOR -> StoreyCost(DETAILED_COSTS_REF.FLOOR, surface)
      [] type = LevelType.SOUS_SOL -> SousSolCost(surface)
      [] OTHER -> CostBreakdown(0, 0, 0, 0, 0, 0, <<>>)

calculateTerrasseCost(surface) ==
    LET refGO == DETAILED_COSTS_REF.TERRASSE.GROS_OEUVRE
        refFIN == DETAILED_COSTS_REF.TERRASSE.FINITION
        mo == TimesRatio(refGO.MO, surface)
        materials == TimesRatio(refGO.BRIQUES + refGO.CIMENT + refGO.FER
                                + refGO.SABLE, surface)
        finishing == TimesRatio(refFIN.ZELLIGE + refFIN.PEINTURE
                                + refFIN.FERRONNERIE, surface)
        categories == << [name |-> "Main d'oeuvre", value |-> mo],
                         [name |-> "Materiaux Gros Oeuvre", value |-> materials],
                         [name |-> "Finitions Terrasse", value |-> finishing] >>
    IN  [ grosOeuvre |-> mo + materials,
          finition   |-> finishing,
          total      |-> mo + materials + finishing,
          details    |-> [ mo |-> mo, materials |-> materials,
                           equipment |-> 0, finishing |-> finishing ],
          categories |-> categories ]

-----------------------------------------------------------------------------
(* App.tsx: the surface deriver (first useMemo) *)

facadeDeduction(s) ==
    IF s.facades = 1 THEN SURFACE_RULES.DEDUCTION_1_FACADE
    ELSE SURFACE_RULES.DEDUCTION_2_FACADES

\* mutant: a FLOOR keeps its declared surface
GrossSurfaceFloorDeclared(s, level) ==
    IF level.type = LevelType.RDC THEN s.terrainArea - facadeDeduction(s)
    ELSE IF level.type = LevelType.FLOOR THEN level.surface
    ELSE s.terrainArea

\* mutant: the gross surface is floored at 0
GrossSurfaceClamped(s, level) ==
    IF level.type = LevelType.RDC
    THEN Max(0, s.terrainArea - facadeDeduction(s))
    ELSE IF level.type = LevelType.FLOOR
         THEN Max(0, (s.terrainArea - facadeDeduction(s)) + s.encorbellementM2)
    ELSE s.terrainArea

\* let surface = ... if / else if chain over level.type
GrossSurface(s, level) ==
    IF level.type = LevelType.RDC THEN s.terrainArea - facadeDeduction(s)
    ELSE IF level.type = LevelType.FLOOR
         THEN (s.terrainArea - facadeDeduction(s)) + s.encorbellementM2
    ELSE IF level.type = LevelType.SOUS_SOL THEN s.terrainArea
    ELSE s.terrainArea

\* mutant: the FOUNDATION case is dropped
SellableSurfaceNoFoundationCase(s, level, surface) ==
    Max(0, surface - s.deductionStairsM2 - s.deductionWallsM2)

\* mutant: the floor at 0 is dropped
SellableSurfaceUnclamped(s, level, surface) ==
    IF level.type = LevelType.FOUNDATION THEN 0
    ELSE surface - s.deductionStairsM2 - s.deductionWallsM2

SellableSurface(s, level, surface) ==
    IF level.type = LevelType.FOUNDATION THEN 0
    ELSE Max(0, surface - s.deductionStairsM2 - s.deductionWallsM2)

\* { ...level, surface, sellableSurface }
CalculatedLevel(s, level) ==
    LET surface == GrossSurface(s, level) IN
    [ id |-> level.id, type |-> level.type, name |-> level.name,
      surface |-> surface,
      grosOeuvrePrice |-> level.grosOeuvrePrice,
      finitionPrice |-> level.finitionPrice,
      sellableSurface |-> SellableSurface(s, level, surface) ]

ComputeCalculatedLevels(s) ==
    [i \in DOMAIN s.levels |-> CalculatedLevel(s, s.levels[i])]

-----------------------------------------------------------------------------
(* App.tsx: the aggregation (second useMemo) *)

\* (level as any).sellableSurface || 0
SellableOrZero(level) ==
    IF "sellableSurface" \in DOMAIN level THEN level.sellableSurface ELSE 0

\* mutant: flat unit prices, the level's surface times its own prices
LevelCostFlatPrice(s, level) ==
    [ calculateLevelCost(level.type, s.terrainArea,
                         DETAILED_COSTS_REF.SURFACE_BASE)
        EXCEPT !.grosOeuvre = level.surface * level.grosOeuvrePrice * 10,
               !.finition = level.surface * level.finitionPrice * 10 ]

LevelCost(s, level) ==
    IF IsTerrasseName(level.name) THEN calculateTerrasseCost(s.terrainArea)
    ELSE calculateLevelCost(level.type, s.terrainArea,
                            DETAILED_COSTS_REF.SURFACE_BASE)

\* mutant: the categories array outlives the call and is appended to again
LevelCostsKeptCategories(s, levels) ==
    [i \in DOMAIN levels |->
        LET c == LevelCost(s, levels[i]) IN
        IF i \in DOMAIN costs
        THEN [c EXCEPT !.categories = costs[i].categories \o c.categories]
        ELSE c]

LevelCosts(s, levels) == [i \in DOMAIN levels |-> LevelCost(s, levels[i])]

CountsInTotalSurface(level) ==
    level.type /= LevelType.FOUNDATION /\ ~IsTerrasseName(level.name)

\* the connection fee, in hundredths of a dirham
ConnectionFee == DETAILED_COSTS_REF.RACCORDEMENT_FIXED * 100

\* mutant: the connection fee is added for every level
GrosOeuvreTotalFeePerLevel(s, levels) ==
    SumSeq([i \in DOMAIN levels |->
               LevelCost(s, levels[i]).grosOeuvre + ConnectionFee])

GrosOeuvreTotal(s, levels) ==
    SumSeq([i \in DOMAIN levels |-> LevelCost(s, levels[i]).grosOeuvre])
    + ConnectionFee

FinitionTotal(s, levels) ==
    SumSeq([i \in DOMAIN levels |-> LevelCost(s, levels[i]).finition])

\* mutant: the foundation is taken to be the first level of the list
TotalSurfaceSkipsFirst(levels) ==
    SumSeq([i \in DOMAIN levels |->
               IF i > 1 /\ ~IsTerrasseName(levels[i].name)
               THEN levels[i].surface ELSE 0])

TotalSurface(levels) ==
    SumSeq([i \in DOMAIN levels |->
               IF CountsInTotalSurface(levels[i]) THEN levels[i].surface
               ELSE 0])

TotalSellableSurface(levels) ==
    SumSeq([i \in DOMAIN levels |-> SellableOrZero(levels[i])])

\* mutant: the connection fee is added to the investment as well
TotalInvestmentFeeAgain(s, landCost, constructionCost, miscFeesPercentValue) ==
    landCost + s.notaryFees * 100 + constructionCost + miscFeesPercentValue
    + s.miscFeesFixed * 100 + ConnectionFee

\* landCost + state.notaryFees + constructionCost + miscFeesPercentValue
\* + state.miscFeesFixed
TotalInvestment(s, landCost, constructionCost, miscFeesPercentValue) ==
    landCost + s.notaryFees * 100 + constructionCost + miscFeesPercentValue
    + s.miscFeesFixed * 100

\* mutant: the connection fee is added to the construction cost again
ConstructionCostFeeAgain(grosOeuvre, finition) ==
    grosOeuvre + finition + ConnectionFee

\* const constructionCost = grosOeuvre + finition
ConstructionCost(grosOeuvre, finition) == grosOeuvre + finition

\* totalSellableSurface * state.salePricePerM2
TotalRevenue(s, totalSellableSurface) ==
    totalSellableSurface * s.salePricePerM2 * 10

\* mutant: the tax is levied whatever the sign of the gross profit
StateTaxOnLoss(s, grossProfit) ==
    PercentOf(grossProfit, s.stateTaxPercentage)

\* grossProfit > 0 ? grossProfit * (state.stateTaxPercentage / 100) : 0
StateTax(s, grossProfit) ==
    IF grossProfit > 0 THEN PercentOf(grossProfit, s.stateTaxPercentage)
    ELSE 0

\* mutant: the guard on totalRevenue is dropped
MarginPercentageUnguarded(netProfit, totalRevenue) ==
    [num |-> netProfit, den |-> totalRevenue]

\* totalRevenue > 0 ? (netProfit / totalRevenue) * 100 : 0, as the quotient
\* netProfit / totalRevenue (in hundredths: times 100 is the percentage)
MarginPercentage(netProfit, totalRevenue) ==
    IF totalRevenue > 0 THEN [num |-> netProfit, den |-> totalRevenue]
    ELSE [num |-> 0, den |-> 1]

\* state.levels.filter(l => l.type === FLOOR && l.name.includes('Etage')).length
NumEtages(s) ==
    Cardinality({i \in DOMAIN s.levels :
                    /\ s.levels[i].type = LevelType.FLOOR
                    /\ includes(s.levels[i].name, "Etage")})

\* 0.4 and 0.5 of reference amounts: all are whole dirhams
TotalMO(s) ==
    LET R == DETAILED_COSTS_REF
        rdc == R.FOUNDATION.MO + R.RDC.GROS_OEUVRE.MO
               + (R.RDC.FINITION.PLATRE * 4) \div 10
               + (R.RDC.FINITION.ZELLIGE * 4) \div 10
               + (R.RDC.FINITION.PEINTURE * 5) \div 10
        floor == R.FLOOR.GROS_OEUVRE.MO
                 + (R.FLOOR.FINITION.PLATRE * 4) \div 10
                 + (R.FLOOR.FINITION.ZELLIGE * 4) \div 10
                 + (R.FLOOR.FINITION.PEINTURE * 5) \div 10
    IN  ((rdc + floor * NumEtages(s) + R.TERRASSE.GROS_OEUVRE.MO)
         * s.terrainArea) \div 10

\* the second half of the memo: everything computed after the forEach, from
\* the sums it accumulated
TotalsOf(s, grosOeuvre, finition, totalSurface, totalSellableSurface, totalMO) ==
    LET constructionCost == ConstructionCost(grosOeuvre, finition)
        landCost == s.terrainArea * s.landPricePerM2 * 10
        miscFeesPercentValue == PercentOf(constructionCost, s.miscFeesPercentage)
        totalInvestment == TotalInvestment(s, landCost, constructionCost,
                                           miscFeesPercentValue)
        totalRevenue == TotalRevenue(s, totalSellableSurface)
        grossProfit == totalRevenue - totalInvestment
        stateTax == StateTax(s, grossProfit)
        netProfit == grossProfit - stateTax
    IN  [ grosOeuvre |-> grosOeuvre,
          finition |-> finition,
          constructionCost |-> constructionCost,
          landCost |-> landCost,
          totalInvestment |-> totalInvestment,
          totalRevenue |-> totalRevenue,
          grossProfit |-> grossProfit,
          stateTax |-> stateTax,
          netProfit |-> netProfit,
          marginPercentage |-> MarginPercentage(netProfit, totalRevenue),
          totalSurface |-> totalSurface,
          totalSellableSurface |-> totalSellableSurface,
          estSteel |-> totalSurface * 38,       \* tenths of a kg
          estCement |-> totalSurface * 32,      \* hundredths of a bag
          estBricks |-> totalSurface * 48,      \* tenths of a unit
          estConcrete |-> totalSurface * 32,    \* thousandths of a m3
          totalMO |-> totalMO,
          totalMaterials |-> constructionCost - totalMO - ConnectionFee,
          maxAllowedSurface |-> s.terrainArea * s.cos,  \* hundredths of a m2
          isOverCOS |-> totalSurface * 10 > s.terrainArea * s.cos ]

ComputeTotals(s, levels) ==
    TotalsOf(s, GrosOeuvreTotal(s, levels), FinitionTotal(s, levels),
             TotalSurface(levels), TotalSellableSurface(levels), TotalMO(s))

-----------------------------------------------------------------------------
(* App.tsx: the quotients the JSX computes and formats with toFixed *)

Quotient(n, d) == [num |-> n, den |-> d]

\* toFixed of a quotient: the text is a number unless the divisor was 0
toFixed(q) ==
    IF q.den /= 0 THEN "number"
    ELSE IF q.num = 0 THEN "NaN"
    ELSE IF q.num > 0 THEN "Infinity" ELSE "-Infinity"

\* (totals.netProfit / totals.totalInvestment) * 100
RoiNet(t) == Quotient(t.netProfit, t.totalInvestment)

ComputeView(t) ==
    [ roiNet |-> toFixed(RoiNet(t)),
      avgConstructionCost |->
          toFixed(Quotient(t.constructionCost, t.totalSurface)),
      profitPerSellableM2 |->
          toFixed(Quotient(t.netProfit, t.totalSellableSurface)),
      marginPercentage |-> toFixed(t.marginPercentage) ]

-----------------------------------------------------------------------------
(* App.tsx: chartData, the slices of the capital breakdown chart *)

\* a JavaScript value of an arithmetic expression: a number (amounts in
\* hundredths of a dirham), NaN, or undefined
Num(n) == [kind |-> "number", value |-> n]
NaN == [kind |-> "NaN"]
Undefined == [kind |-> "undefined"]

\* state.<field>: a property the object does not hold reads as undefined
MoneyField(s, field) ==
    IF field \in DOMAIN s THEN Num(s[field] * 100) ELSE Undefined

\* a + b: undefined converts to NaN, and NaN absorbs
Plus(a, b) ==
    IF a.kind = "number" /\ b.kind = "number" THEN Num(a.value + b.value)
    ELSE NaN

ChartData(s, t) ==
    << [ name |-> <<"Terrain">>, value |-> Num(t.landCost) ],
       [ name |-> <<"Construction">>, value |-> Num(t.constructionCost) ],
       [ name |-> <<"Frais", "&", "Taxes">>,
         value |-> Plus(Plus(Plus(MoneyField(s, "notaryFees"),
                                  MoneyField(s, "miscFeesFixed")),
                             MoneyField(s, "connectionFees")),
                        Num(PercentOf(t.constructionCost,
                                      s.miscFeesPercentage))) ] >>

-----------------------------------------------------------------------------
(* utils/pdfExport.ts: generatePDF(state, totals) *)

NoReport == [rows |-> <<>>, summary |-> [written |-> FALSE], sections |-> <<>>]

\* one row of tableRows; the cells are held before formatting, and the
\* Vendable and Revenu cells print '-' when isFoundation
TableRow(s, level) ==
    LET isFoundation == level.type = "FOUNDATION"
        surface == IF isFoundation THEN s.terrainArea ELSE level.surface
        grosOeuvre == IF isFoundation THEN s.terrainArea * 500 * 10
                      ELSE surface * level.grosOeuvrePrice * 10
        finition == IF isFoundation THEN 0
                    ELSE surface * level.finitionPrice * 10
        sellable == SellableOrZero(level)
        revenue == sellable * s.salePricePerM2 * 10
    IN  [ name |-> level.name, isFoundation |-> isFoundation,
          surface |-> surface, grosOeuvre |-> grosOeuvre,
          finition |-> finition, sellable |-> sellable, revenue |-> revenue ]

\* the sections written into the document, in the order of the calls that
\* write them: autoTable, 'Recapitulatif Financier Global', 'Estimation des
\* Materiaux Principaux'; doc.save follows
ReportSections ==
    << "summary table", "financial recap", "material estimate" >>

generatePDF(s, t) ==
    [ rows |-> [i \in DOMAIN s.levels |-> TableRow(s, s.levels[i])],
      summary |->
        [ written |-> TRUE,
          landCost |-> t.landCost,
          notaryFees |-> s.notaryFees * 100,
          miscFeesFixed |-> s.miscFeesFixed * 100,
          totalInvestment |-> t.totalInvestment,
          totalRevenue |-> t.totalRevenue,
          grossProfit |-> t.grossProfit,
          stateTax |-> t.stateTax,
          netProfit |-> t.netProfit,
          marginPercentage |-> toFixed(t.marginPercentage),
          roiNet |-> toFixed(RoiNet(t)),
          estSteel |-> t.estSteel, estCement |-> t.estCement,
          estBricks |-> t.estBricks, estConcrete |-> t.estConcrete ],
      sections |-> ReportSections ]

-----------------------------------------------------------------------------
(* App.tsx: the component's state and its handlers *)

Level(id, type, name, surface, grosOeuvrePrice, finitionPrice) ==
    [ id |-> id, type |-> type, name |-> name, surface |-> surface,
      grosOeuvrePrice |-> grosOeuvrePrice, finitionPrice |-> finitionPrice ]

InitialLevels ==
    << Level(<<"foundation">>, LevelType.FOUNDATION, <<"Fondations">>, 1000, 500, 0),
       Level(<<"rdc">>, LevelType.RDC, <<"Rez-de-chaussee">>, 840, 1100, 1100),
       Level(<<"floor", 1>>, LevelType.FLOOR, <<"1er", "Etage">>, 905, 1100, 1100),
       Level(<<"floor", 2>>, LevelType.FLOOR, <<"2eme", "Etage">>, 905, 1100, 1100),
       Level(<<"terrasse">>, LevelType.FLOOR, <<"Terrasse">>, 1000, 500, 500) >>

InitialState ==
    [ terrainArea |-> 1000,
      cos |-> 21,
      facades |-> 1,
      levels |-> InitialLevels,
      unitPrices |-> [ grosOeuvre |-> DEFAULT_PRICES.GROS_OEUVRE,
                       finition |-> DEFAULT_PRICES.FINITION,
                       mainDoeuvre |-> DEFAULT_PRICES.MAIN_DOEUVRE,
                       platre |-> DEFAULT_PRICES.PLATRE,
                       carrelage |-> DEFAULT_PRICES.CARRELAGE,
                       peinture |-> DEFAULT_PRICES.PEINTURE ],
      landPricePerM2 |-> DEFAULT_INVESTMENT.LAND_PRICE,
      notaryFees |-> DEFAULT_INVESTMENT.NOTARY_FEES,
      miscFeesPercentage |-> DEFAULT_INVESTMENT.MISC_FEES_PERCENT,
      miscFeesFixed |-> 5000,
      salePricePerM2 |-> DEFAULT_INVESTMENT.SALE_PRICE,
      deductionStairsM2 |-> DEFAULT_INVESTMENT.STAIRS_DEDUCTION_M2,
      deductionWallsM2 |-> DEFAULT_INVESTMENT.WALLS_DEDUCTION_M2,
      stateTaxPercentage |-> DEFAULT_INVESTMENT.STATE_TAX,
      encorbellementM2 |-> SURFACE_RULES.ENCORBELLEMENT ]

QuickSimulationLevels ==
    << Level(<<"foundation">>, LevelType.FOUNDATION, <<"Fondations">>, 1000, 500, 0),
       Level(<<"rdc">>, LevelType.RDC, <<"Rez-de-chaussee">>, 910, 1100, 1100),
       Level(<<"floor", 1>>, LevelType.FLOOR, <<"1er", "Etage">>, 980, 1100, 1100),
       Level(<<"floor", 2>>, LevelType.FLOOR, <<"2eme", "Etage">>, 980, 1100, 1100) >>

(* The dependency lists of the two useMemo calls.  state.levels and        *)
(* calculatedLevels are compared by identity: the flag passed to Render    *)
(* says whether the handler stored a new array.  state.connectionFees is   *)
(* in the second list and is no field of the state: always undefined.      *)

\* mutant: state.deductionWallsM2 is left out of the dependency list
CalculatedLevelsDepsNoWalls(s) ==
    << s.terrainArea, s.facades, s.deductionStairsM2, s.encorbellementM2 >>

CalculatedLevelsDeps(s) ==
    << s.terrainArea, s.facades, s.deductionStairsM2, s.deductionWallsM2,
       s.encorbellementM2 >>

TotalsDeps(s) ==
    << s.terrainArea, s.cos, s.landPricePerM2, s.notaryFees,
       s.miscFeesPercentage, s.miscFeesFixed, s.salePricePerM2,
       s.stateTaxPercentage >>

\* the render that follows setState: prev is the state of the last render,
\* next the state once the queued updaters have run
Render(prev, next, newLevelsArray) ==
    LET levelsStale == newLevelsArray
                       \/ CalculatedLevelsDeps(prev) /= CalculatedLevelsDeps(next)
        totalsStale == levelsStale \/ TotalsDeps(prev) /= TotalsDeps(next)
    IN  /\ state' = next
        /\ calculatedLevels' = IF levelsStale THEN ComputeCalculatedLevels(next)
                               ELSE calculatedLevels
        /\ totals' = IF totalsStale THEN ComputeTotals(next, calculatedLevels')
                      ELSE totals
        /\ costs' = IF totalsStale THEN LevelCosts(next, calculatedLevels')
                     ELSE costs
        /\ view' = ComputeView(totals')
        /\ queue' = <<>>
        /\ UNCHANGED <<report, pc>>

\* the values typed into the form in the model: Number(e.target.value)
TerrainAreaInputs == {0, 500, 1000}
LandPriceInputs == {0, 5000}
CosInputs == {21, 30}
FacadesInputs == {1, 2}
SalePriceInputs == {0, 12000}
StateTaxInputs == {20, 100}
StairsInputs == {120, 1000}
WallsInputs == {0, 80}
EncorbellementInputs == {0, 65}
NotaryFeesInputs == {0, 50000}
MiscFeesFixedInputs == {0, 5000}
SliderInputs == {1500}
SliderKeys == {"grosOeuvre", "finition"}

\* the longest level list the model explores
MaxLevels == 6

\* the model explores the forms in which at most MaxEdited fields hold a
\* value other than the initial one
MaxEdited == 2

FormFields ==
    { "terrainArea", "landPricePerM2", "cos", "facades", "salePricePerM2",
      "stateTaxPercentage", "deductionStairsM2", "deductionWallsM2",
      "encorbellementM2", "notaryFees", "miscFeesFixed" }

Edited(s) ==
    Cardinality({f \in FormFields : s[f] /= InitialState[f]})
    + Cardinality({k \in SliderKeys :
                      s.unitPrices[k] /= InitialState.unitPrices[k]})

\* onChange: setState(prev => ({ ...prev, field: Number(e.target.value) }))
Edit(next) ==
    /\ pc = "ui"
    /\ Edited(next) <= MaxEdited
    /\ Render(state, next, FALSE)

SetTerrainArea(v) ==
    Edit([state EXCEPT !.terrainArea = v])
SetLandPricePerM2(v) ==
    Edit([state EXCEPT !.landPricePerM2 = v])
SetCos(v) ==
    Edit([state EXCEPT !.cos = v])
SetFacades(v) ==
    Edit([state EXCEPT !.facades = v])
SetSalePricePerM2(v) ==
    Edit([state EXCEPT !.salePricePerM2 = v])
SetStateTaxPercentage(v) ==
    Edit([state EXCEPT !.stateTaxPercentage = v])
SetDeductionStairsM2(v) ==
    Edit([state EXCEPT !.deductionStairsM2 = v])
SetDeductionWallsM2(v) ==
    Edit([state EXCEPT !.deductionWallsM2 = v])
SetEncorbellementM2(v) ==
    Edit([state EXCEPT !.encorbellementM2 = v])
SetNotaryFees(v) ==
    Edit([state EXCEPT !.notaryFees = v])
SetMiscFeesFixed(v) ==
    Edit([state EXCEPT !.miscFeesFixed = v])
\* the two sliders of "Couts Directs": key is grosOeuvre or finition
SetUnitPrice(key, v) ==
    Edit([state EXCEPT !.unitPrices[key] = v])

FloorCount(levels) ==
    Cardinality({i \in DOMAIN levels : levels[i].type = LevelType.FLOOR})

\* mutant: the id is built from floorCount, not floorCount + 1
NewLevelIdOffByOne(s) ==
    LET floorCount == FloorCount(s.levels) IN
    Level(<<"floor", floorCount>>, LevelType.FLOOR,
          << ToString(floorCount + 1) \o (IF floorCount = 0 THEN "er" ELSE "eme"),
             "Etage" >>,
          0, s.unitPrices.grosOeuvre, s.unitPrices.finition)

NewLevel(s) ==
    LET floorCount == FloorCount(s.levels) IN
    Level(<<"floor", floorCount + 1>>,
          LevelType.FLOOR,
          << ToString(floorCount + 1) \o (IF floorCount = 0 THEN "er" ELSE "eme"),
             "Etage" >>,
          0,
          s.unitPrices.grosOeuvre,
          s.unitPrices.finition)

addLevel ==
    /\ pc = "ui"
    /\ Len(state.levels) < MaxLevels
    /\ Render(state,
              [state EXCEPT !.levels = Append(state.levels, NewLevel(state))],
              TRUE)

\* mutant: the guard is off by one
RemoveGuardOffByOne(s) == Len(s.levels) > 1

\* state.levels.length > 2, then prev.levels.slice(0, -1)
RemoveGuard(s) == Len(s.levels) > 2

removeLevel ==
    /\ pc = "ui"
    /\ RemoveGuard(state)
    /\ Render(state,
              [state EXCEPT !.levels = SubSeq(state.levels, 1,
                                              Len(state.levels) - 1)],
              TRUE)

handleQuickSimulation ==
    /\ pc = "ui"
    /\ Render(state,
              [state EXCEPT !.terrainArea = 1000, !.facades = 2, !.cos = 21,
                            !.levels = QuickSimulationLevels],
              TRUE)

Init ==
    /\ state = InitialState
    /\ calculatedLevels = ComputeCalculatedLevels(InitialState)
    /\ totals = ComputeTotals(InitialState, ComputeCalculatedLevels(InitialState))
    /\ costs = LevelCosts(InitialState, ComputeCalculatedLevels(InitialState))
    /\ view = ComputeView(totals)
    /\ report = NoReport
    /\ queue = <<>>
    /\ pc = "ui"

Next ==
    \/ \E v \in TerrainAreaInputs : SetTerrainArea(v)
    \/ \E v \in LandPriceInputs : SetLandPricePerM2(v)
    \/ \E v \in CosInputs : SetCos(v)
    \/ \E v \in FacadesInputs : SetFacades(v)
    \/ \E v \in SalePriceInputs : SetSalePricePerM2(v)
    \/ \E v \in StateTaxInputs : SetStateTaxPercentage(v)
    \/ \E v \in StairsInputs : SetDeductionStairsM2(v)
    \/ \E v \in WallsInputs : SetDeductionWallsM2(v)
    \/ \E v \in EncorbellementInputs : SetEncorbellementM2(v)
    \/ \E v \in NotaryFeesInputs : SetNotaryFees(v)
    \/ \E v \in MiscFeesFixedInputs : SetMiscFeesFixed(v)
    \/ \E k \in SliderKeys, v \in SliderInputs : SetUnitPrice(k, v)
    \/ addLevel
    \/ removeLevel
    \/ handleQuickSimulation

Spec == Init /\ [][Next]_vars

-----------------------------------------------------------------------------
(* The level buttons pressed more than once before React renders again.    *)
(* A handler is a closure of the last render: it reads that render's       *)
(* `state` for its guard and for the new level it builds, and hands        *)
(* setState an updater that React runs later on the latest state, in the   *)
(* order of the calls.                                                      *)

\* the most updaters the model queues before a render
MaxPending == 2

\* prev => ({ ...prev, levels: [...prev.levels, newLevel] }), and
\* prev => ({ ...prev, levels: prev.levels.slice(0, -1) })
ApplyUpdate(s, u) ==
    IF u.kind = "addLevel"
    THEN [s EXCEPT !.levels = Append(s.levels, u.newLevel)]
    ELSE [s EXCEPT !.levels = SubSeq(s.levels, 1, Len(s.levels) - 1)]

RECURSIVE ApplyUpdates(_, _)
ApplyUpdates(s, q) ==
    IF q = <<>> THEN s
    ELSE ApplyUpdates(ApplyUpdate(s, Head(q)), Tail(q))

\* addLevel called from the last render's closure: newLevel is built from
\* the rendered state
DispatchAddLevel ==
    /\ pc = "ui"
    /\ Len(queue) < MaxPending
    /\ Len(state.levels) + Len(queue) < MaxLevels
    /\ queue' = Append(queue, [kind |-> "addLevel", newLevel |-> NewLevel(state)])
    /\ UNCHANGED <<state, calculatedLevels, totals, costs, view, report, pc>>

\* removeLevel called from the last render's closure: the guard reads the
\* rendered state
DispatchRemoveLevel ==
    /\ pc = "ui"
    /\ Len(queue) < MaxPending
    /\ RemoveGuard(state)
    /\ queue' = Append(queue, [kind |-> "removeLevel"])
    /\ UNCHANGED <<state, calculatedLevels, totals, costs, view, report, pc>>

\* React runs the queued updaters and renders
Flush ==
    /\ pc = "ui"
    /\ queue /= <<>>
    /\ Render(state, ApplyUpdates(state, queue), TRUE)

NextBatch == DispatchAddLevel \/ DispatchRemoveLevel \/ Flush

SpecBatch == Init /\ [][NextBatch]_vars

-----------------------------------------------------------------------------
(* The engine as a pure pipeline: one run over a drawn ProjectState.       *)
(* The stages are the ones App performs for one state: the first useMemo,  *)
(* the second useMemo, the JSX quotients, and the export button's          *)
(* generatePDF(state, totals).                                             *)

SousSolLevel ==
    Level(<<"soussol">>, LevelType.SOUS_SOL, <<"Sous-sol">>, 1000, 1100, 0)

\* level lists of the drawn inputs: the two lists App builds, the shortest
\* list removeLevel leaves, a list after addLevel, and a project with a
\* basement
EngineLevelLists ==
    { InitialLevels,
      QuickSimulationLevels,
      SubSeq(InitialLevels, 1, 2),
      Append(QuickSimulationLevels, NewLevel(InitialState)),
      <<SousSolLevel>> \o SubSeq(InitialLevels, 1, 3) }

EngineInputs ==
    { [ InitialState EXCEPT
          !.terrainArea = a, !.landPricePerM2 = lp, !.cos = c, !.facades = f,
          !.salePricePerM2 = sp, !.stateTaxPercentage = tx,
          !.deductionStairsM2 = ds, !.deductionWallsM2 = dw,
          !.encorbellementM2 = e, !.notaryFees = nf, !.miscFeesFixed = mf,
          !.levels = ls ] :
        a \in TerrainAreaInputs, lp \in LandPriceInputs, c \in CosInputs,
        f \in FacadesInputs, sp \in SalePriceInputs, tx \in StateTaxInputs,
        ds \in StairsInputs, dw \in WallsInputs, e \in EncorbellementInputs,
        nf \in NotaryFeesInputs, mf \in MiscFeesFixedInputs,
        ls \in EngineLevelLists }

NoTotals == [computed |-> FALSE]
NoView == [computed |-> FALSE]

InitEngine ==
    /\ state \in EngineInputs
    /\ calculatedLevels = <<>>
    /\ totals = NoTotals
    /\ costs = <<>>
    /\ view = NoView
    /\ report = NoReport
    /\ queue = <<>>
    /\ pc = "input"

Derive ==
    /\ pc = "input"
    /\ calculatedLevels' = ComputeCalculatedLevels(state)
    /\ pc' = "derived"
    /\ UNCHANGED <<state, totals, costs, view, report, queue>>

Aggregate ==
    /\ pc = "derived"
    /\ totals' = ComputeTotals(state, calculatedLevels)
    /\ costs' = LevelCosts(state, calculatedLevels)
    /\ pc' = "aggregated"
    /\ UNCHANGED <<state, calculatedLevels, view, report, queue>>

Display ==
    /\ pc = "aggregated"
    /\ view' = ComputeView(totals)
    /\ pc' = "rendered"
    /\ UNCHANGED <<state, calculatedLevels, totals, costs, report, queue>>

\* onClick={() => generatePDF(state, totals)}
ExportPDF ==
    /\ pc = "rendered"
    /\ report' = generatePDF(state, totals)
    /\ pc' = "exported"
    /\ UNCHANGED <<state, calculatedLevels, totals, costs, view, queue>>

NextEngine == Derive \/ Aggregate \/ Display \/ ExportPDF

SpecEngine == InitEngine /\ [][NextEngine]_vars

(* The engine called a second time on the same ProjectState: what the two  *)
(* useMemo bodies do when a handler stores a state of equal content (a     *)
(* second click on the quick simulation), here as a stage of its own.      *)

Recalculate ==
    /\ pc = "aggregated"
    /\ calculatedLevels' = ComputeCalculatedLevels(state)
    /\ totals' = ComputeTotals(state, calculatedLevels')
    /\ costs' = LevelCosts(state, calculatedLevels')
    /\ pc' = "recalculated"
    /\ UNCHANGED <<state, view, report, queue>>

NextRecalculate == Derive \/ Aggregate \/ Recalculate

SpecRecalculate == InitEngine /\ [][NextRecalculate]_vars

Recalculated == pc = "recalculated"

(* The engine run on a project and run again on the same project with its  *)
(* levels in another order.                                                *)

\* the level lists that hold the levels of seq in another order
Reorderings(seq) ==
    { [i \in DOMAIN seq |-> seq[p[i]]] : p \in Permutations(DOMAIN seq) }

\* the drawn projects with the land price and the two fixed fees as in the
\* initial state
ReorderInputs ==
    { s \in EngineInputs :
         /\ s.landPricePerM2 = InitialState.landPricePerM2
         /\ s.notaryFees = InitialState.notaryFees
         /\ s.miscFeesFixed = InitialState.miscFeesFixed }

InitReorder ==
    /\ state \in ReorderInputs
    /\ calculatedLevels = <<>>
    /\ totals = NoTotals
    /\ costs = <<>>
    /\ view = NoView
    /\ report = NoReport
    /\ queue = <<>>
    /\ pc = "input"

Reorder ==
    /\ pc = "aggregated"
    /\ \E ls \in Reorderings(state.levels) :
          state' = [state EXCEPT !.levels = ls]
    /\ calculatedLevels' = ComputeCalculatedLevels(state')
    /\ totals' = ComputeTotals(state', calculatedLevels')
    /\ costs' = LevelCosts(state', calculatedLevels')
    /\ pc' = "reordered"
    /\ UNCHANGED <<view, report, queue>>

NextReorder == Derive \/ Aggregate \/ Reorder

SpecReorder == InitReorder /\ [][NextReorder]_vars

Reordered == pc = "reordered"

(* The cost calculator on its own: one call of calculateLevelCost or of    *)
(* calculateTerrasseCost over a drawn level kind and terrain area. The     *)
(* area is what the number input of the terrain surface stores:            *)
(* Number(e.target.value), of either sign.                                 *)

\* the drawn areas run from -MaxArea to MaxArea tens of square metres
MaxArea == 12

CostAreaInputs == { 100 * k : k \in -MaxArea .. MaxArea }

CostLevelInputs ==
    { InitialLevels[1], InitialLevels[2], InitialLevels[3], SousSolLevel }

InitCost ==
    /\ state \in { [InitialState EXCEPT !.terrainArea = a, !.levels = <<l>>] :
                     a \in CostAreaInputs, l \in CostLevelInputs }
    /\ calculatedLevels = <<>>
    /\ totals = NoTotals
    /\ costs = <<>>
    /\ view = NoView
    /\ report = NoReport
    /\ queue = <<>>
    /\ pc = "input"

CallCalculateLevelCost ==
    /\ pc = "input"
    /\ costs' = << calculateLevelCost(state.levels[1].type, state.terrainArea,
                                      DETAILED_COSTS_REF.SURFACE_BASE) >>
    /\ pc' = "costed"
    /\ UNCHANGED <<state, calculatedLevels, totals, view, report, queue>>

CallCalculateTerrasseCost ==
    /\ pc = "input"
    /\ costs' = << calculateTerrasseCost(state.terrainArea) >>
    /\ pc' = "costed"
    /\ UNCHANGED <<state, calculatedLevels, totals, view, report, queue>>

NextCost == CallCalculateLevelCost \/ CallCalculateTerrasseCost

SpecCost == InitCost /\ [][NextCost]_vars

Costed == pc = "costed"

\* the stages at which each output exists (in the component, "ui", all do
\* except the report)
Derived == pc \in {"ui", "derived", "aggregated", "rendered", "exported"}
Aggregated == pc \in {"ui", "aggregated", "rendered", "exported"}
Rendered == pc \in {"ui", "rendered", "exported"}
Exported == pc = "exported"

-----------------------------------------------------------------------------
(* Properties *)

IsFoundation(level) == level.type = LevelType.FOUNDATION

\* a quotient that is a defined number equal to 0
IsZero(q) == q.den /= 0 /\ q.num = 0

\* the same project on a terrain twice as large
Doubled(s) == [s EXCEPT !.terrainArea = 2 * s.terrainArea]

\* the construction cost and the revenue of a full run of the pipeline on s
ConstructionCostAt(s) ==
    ComputeTotals(s, ComputeCalculatedLevels(s)).constructionCost
RevenueAt(s) ==
    ComputeTotals(s, ComputeCalculatedLevels(s)).totalRevenue

\* C1: after any sequence of addLevel, removeLevel, handleQuickSimulation
\* and parameter edits from the initial state, the level list holds at
\* least one FOUNDATION level and at least one RDC level.
C1_FoundationAndRDC ==
    /\ \E i \in DOMAIN state.levels :
          state.levels[i].type = LevelType.FOUNDATION
    /\ \E i \in DOMAIN state.levels : state.levels[i].type = LevelType.RDC

\* removeLevel has shortened the list down to its guard
C1_Witness ==
    /\ pc = "ui"
    /\ Len(state.levels) = 2
    /\ ~RemoveGuard(state)

\* C2: a FOUNDATION level has sellableSurface 0 in the derived levels,
\* finishing cost 0 in its cost breakdown, and finishing cost 0 in its row
\* of the report.
C2_FoundationNotSellableNorFinished ==
    /\ Derived =>
         \A i \in DOMAIN calculatedLevels :
            IsFoundation(calculatedLevels[i])
               => calculatedLevels[i].sellableSurface = 0
    /\ Aggregated =>
         \A i \in DOMAIN costs :
            IsFoundation(calculatedLevels[i]) => costs[i].finition = 0
    /\ Exported =>
         \A i \in DOMAIN report.rows :
            report.rows[i].isFoundation => report.rows[i].finition = 0

\* a run, exported, over a positive terrain with a foundation whose gross
\* surface exceeds the deductions, and with a level that does have finishing
C2_Witness ==
    /\ Exported
    /\ state.terrainArea > state.deductionStairsM2 + state.deductionWallsM2
    /\ \E i \in DOMAIN calculatedLevels :
          /\ IsFoundation(calculatedLevels[i])
          /\ costs[i].grosOeuvre > 0
    /\ \E i \in DOMAIN costs : costs[i].finition > 0

\* C3 as stated: marginPercentage is a defined number, and it is 0 if and
\* only if totalRevenue is 0.
C3_MarginZeroIffNoRevenue ==
    Aggregated =>
      /\ toFixed(totals.marginPercentage) = "number"
      /\ IsZero(totals.marginPercentage) <=> totals.totalRevenue = 0

\* C3 as amended: marginPercentage is a defined number; it is 0 whenever
\* totalRevenue is 0, and it is 0 exactly when totalRevenue <= 0 or
\* netProfit is 0.
C3_MarginDefinedAndZero ==
    Aggregated =>
      /\ toFixed(totals.marginPercentage) = "number"
      /\ totals.totalRevenue = 0 => IsZero(totals.marginPercentage)
      /\ IsZero(totals.marginPercentage)
           <=> (totals.totalRevenue <= 0 \/ totals.netProfit = 0)

\* a run with revenue and a zero margin, and so a zero net profit
C3_Witness ==
    /\ Aggregated
    /\ totals.totalRevenue > 0
    /\ IsZero(totals.marginPercentage)

\* C4 as stated: the constructionCost for terrain area 2A is twice the
\* constructionCost for A.
C4_ConstructionCostDoubles ==
    Aggregated =>
      ConstructionCostAt(Doubled(state)) = 2 * totals.constructionCost

\* C4 as amended: the constructionCost for 2A is twice the constructionCost
\* for A less the fixed connection fee, which is added once whatever A is.
C4_ConstructionCostDoublesButFee ==
    Aggregated =>
      ConstructionCostAt(Doubled(state))
         = 2 * totals.constructionCost - ConnectionFee

\* a run over a positive terrain with at least three levels
C4_Witness ==
    /\ Aggregated
    /\ state.terrainArea > 0
    /\ Len(state.levels) >= 3
    /\ totals.constructionCost > ConnectionFee

\* C5 as stated: the totalRevenue for terrain area 2A is twice the
\* totalRevenue for A.
C5_RevenueDoubles ==
    Aggregated => RevenueAt(Doubled(state)) = 2 * totals.totalRevenue

AllSellablePositive ==
    \A i \in DOMAIN calculatedLevels :
       ~IsFoundation(calculatedLevels[i])
          => calculatedLevels[i].sellableSurface > 0

NonFoundationCount ==
    Cardinality({i \in DOMAIN calculatedLevels :
                    ~IsFoundation(calculatedLevels[i])})

\* C5 as amended: for A >= 0, when every non-foundation level has a positive
\* sellable surface at A, the totalRevenue for 2A is the totalRevenue for A
\* plus A * salePricePerM2 for each non-foundation level.
C5_RevenueGrowsByAreaPerLevel ==
    (Aggregated /\ state.terrainArea >= 0 /\ AllSellablePositive) =>
      RevenueAt(Doubled(state))
         = totals.totalRevenue
           + NonFoundationCount * state.terrainArea * state.salePricePerM2 * 10

\* a run in which every level sells, and doubling A does not double revenue
C5_Witness ==
    /\ Aggregated
    /\ state.terrainArea > 0
    /\ state.salePricePerM2 > 0
    /\ AllSellablePositive
    /\ NonFoundationCount >= 2
    /\ RevenueAt(Doubled(state)) /= 2 * totals.totalRevenue

\* C6: for every non-foundation level the derived sellableSurface is
\* max(0, grossSurface - deductionStairsM2 - deductionWallsM2): never
\* negative, 0 when the deductions reach the gross surface, the difference
\* otherwise; with a non-negative sale price its revenue is never negative.
C6_SellableIsClampedDifference ==
    Derived =>
      \A i \in DOMAIN calculatedLevels :
         ~IsFoundation(calculatedLevels[i]) =>
            LET l == calculatedLevels[i]
                raw == l.surface - state.deductionStairsM2
                       - state.deductionWallsM2
            IN  /\ l.surface = GrossSurface(state, state.levels[i])
                /\ l.sellableSurface >= 0
                /\ raw <= 0 => l.sellableSurface = 0
                /\ raw > 0 => l.sellableSurface = raw
                /\ state.salePricePerM2 >= 0
                     => l.sellableSurface * state.salePricePerM2 >= 0

\* a level with a positive gross surface that the deductions exceed
C6_Witness ==
    /\ Derived
    /\ \E i \in DOMAIN calculatedLevels :
          /\ ~IsFoundation(calculatedLevels[i])
          /\ calculatedLevels[i].surface > 0
          /\ state.deductionStairsM2 + state.deductionWallsM2
                > calculatedLevels[i].surface
          /\ calculatedLevels[i].sellableSurface = 0

\* C7: whenever totalSurface, totalInvestment or totalSellableSurface is 0,
\* the quotient displayed or reported over it is a defined number.
C7_QuotientsGuarded ==
    /\ Rendered =>
         /\ totals.totalSurface = 0 => view.avgConstructionCost = "number"
         /\ totals.totalInvestment = 0 => view.roiNet = "number"
         /\ totals.totalSellableSurface = 0
              => view.profitPerSellableM2 = "number"
    /\ Exported =>
         (totals.totalInvestment = 0 => report.summary.roiNet = "number")

\* C8: for every level, the row of the report holds the sellable surface the
\* surface deriver computed and that surface times salePricePerM2, and the
\* revenue column sums to totals.totalRevenue.
C8_ReportReproducesEngine ==
    Exported =>
      /\ \A i \in DOMAIN report.rows :
            /\ report.rows[i].sellable = calculatedLevels[i].sellableSurface
            /\ report.rows[i].revenue
                 = calculatedLevels[i].sellableSurface
                   * state.salePricePerM2 * 10
      /\ SumSeq([i \in DOMAIN report.rows |-> report.rows[i].revenue])
           = totals.totalRevenue

C10_UniqueIds ==
    \A i, j \in DOMAIN state.levels :
       i /= j => state.levels[i].id /= state.levels[j].id

\* a level added by addLevel after removeLevel took the terrace away
C10_Witness ==
    /\ pc = "ui"
    /\ Len(state.levels) >= 5
    /\ state.levels[Len(state.levels)].id = <<"floor", 3>>

C12_OrderOfLevelsIrrelevant ==
    [][pc' = "reordered" => totals' = totals]_vars

\* the engine has run again with the foundation moved from the head of a
\* list that also holds a ground floor and a terrace, with surface and revenue
C12_Witness ==
    /\ Reordered
    /\ Len(state.levels) >= 4
    /\ ~IsFoundation(state.levels[1])
    /\ \E i \in DOMAIN state.levels : IsTerrasseName(state.levels[i].name)
    /\ \E i \in DOMAIN state.levels : state.levels[i].type = LevelType.RDC
    /\ totals.totalSurface > 0
    /\ totals.totalRevenue > 0

\* C13: for every level kind, a terrace included, and every terrain area,
\* 0 included, the categories of the returned CostBreakdown hold only
\* entries whose amount is strictly positive.
C13_CategoriesStrictlyPositive ==
    Aggregated =>
      \A i \in DOMAIN costs :
         \A k \in DOMAIN costs[i].categories :
            costs[i].categories[k].value > 0

\* the projects that differ from s in one level's declared surface,
\* grosOeuvrePrice or finitionPrice, or in one unit-price slider
PriceAndSurfaceVariants(s) ==
    { [s EXCEPT !.levels[i].surface = v] :
         i \in DOMAIN s.levels, v \in {0, 555} }
    \cup { [s EXCEPT !.levels[i].grosOeuvrePrice = v] :
             i \in DOMAIN s.levels, v \in SliderInputs }
    \cup { [s EXCEPT !.levels[i].finitionPrice = v] :
             i \in DOMAIN s.levels, v \in SliderInputs }
    \cup { [s EXCEPT !.unitPrices[k] = v] :
             k \in SliderKeys, v \in SliderInputs }

\* C14: changing a level's declared surface, grosOeuvrePrice or
\* finitionPrice, or a unitPrices slider, everything else fixed, leaves
\* every field of Totals and every derived surface unchanged.
C14_TotalsIgnoreDeclaredSurfaceAndPrices ==
    pc = "aggregated" =>
      \A v \in PriceAndSurfaceVariants(state) :
         LET cl == ComputeCalculatedLevels(v) IN
         /\ ComputeTotals(v, cl) = totals
         /\ \A i \in DOMAIN cl :
               /\ cl[i].surface = calculatedLevels[i].surface
               /\ cl[i].sellableSurface = calculatedLevels[i].sellableSurface

\* a run with costs in which the deriver replaced a declared surface
C14_Witness ==
    /\ pc = "aggregated"
    /\ Len(state.levels) >= 3
    /\ totals.constructionCost > ConnectionFee
    /\ \E i \in DOMAIN state.levels :
          /\ state.levels[i].type = LevelType.FLOOR
          /\ state.levels[i].surface /= calculatedLevels[i].surface
    /\ PriceAndSurfaceVariants(state) /= {state}

\* C15: the aggregated constructionCost is exactly the aggregated
\* gros-oeuvre total, connection fee included, plus the aggregated finition
\* total.
C15_ConstructionCostIsSum ==
    Aggregated =>
      /\ totals.constructionCost = totals.grosOeuvre + totals.finition
      /\ totals.constructionCost
           = (SumSeq([i \in DOMAIN costs |-> costs[i].grosOeuvre])
              + ConnectionFee)
             + SumSeq([i \in DOMAIN costs |-> costs[i].finition])

\* a run with both gros-oeuvre and finition costs
C15_Witness ==
    /\ Aggregated
    /\ totals.finition > 0
    /\ totals.grosOeuvre > ConnectionFee
    /\ totals.constructionCost > totals.grosOeuvre

\* C16: with terrainArea equal to the reference surface (100 m2) each
\* level's cost is the literal sum of the reference-table items, unscaled:
\* FOUNDATION 50060 and 0, RDC 92460 and 96400, FLOOR 96600 and 99200,
\* terrace 31380 and 27000 (gros oeuvre and finition, in DH).
C16_ReferenceSurfaceGivesLiteralSums ==
    (Aggregated /\ state.terrainArea = DETAILED_COSTS_REF.SURFACE_BASE) =>
      \A i \in DOMAIN costs :
         LET l == calculatedLevels[i]
             c == costs[i]
         IN  /\ IsTerrasseName(l.name)
                  => c.grosOeuvre = 31380 * 100 /\ c.finition = 27000 * 100
             /\ (~IsTerrasseName(l.name) /\ l.type = LevelType.FOUNDATION)
                  => c.grosOeuvre = 50060 * 100 /\ c.finition = 0
             /\ (~IsTerrasseName(l.name) /\ l.type = LevelType.RDC)
                  => c.grosOeuvre = 92460 * 100 /\ c.finition = 96400 * 100
             /\ (~IsTerrasseName(l.name) /\ l.type = LevelType.FLOOR)
                  => c.grosOeuvre = 96600 * 100 /\ c.finition = 99200 * 100

\* a run at the reference surface over a foundation, a ground floor, a
\* floor and a terrace
C16_Witness ==
    /\ Aggregated
    /\ state.terrainArea = DETAILED_COSTS_REF.SURFACE_BASE
    /\ \E i \in DOMAIN costs : IsTerrasseName(calculatedLevels[i].name)
    /\ \E i \in DOMAIN costs : calculatedLevels[i].type = LevelType.RDC
    /\ \E i \in DOMAIN costs :
          /\ calculatedLevels[i].type = LevelType.FLOOR
          /\ ~IsTerrasseName(calculatedLevels[i].name)
    /\ \E i \in DOMAIN costs : IsFoundation(calculatedLevels[i])

\* C17: the derived gross surface is terrainArea for FOUNDATION and
\* SOUS_SOL, terrainArea - facadeDeduction for RDC, and
\* (terrainArea - facadeDeduction) + encorbellementM2 for FLOOR, where
\* facadeDeduction is the 1-facade constant when facades = 1 and the
\* 2-facade constant otherwise; it is not clamped.
C17_GrossSurfaceByKind ==
    Derived =>
      \A i \in DOMAIN calculatedLevels :
         LET l == calculatedLevels[i]
             d == IF state.facades = 1 THEN SURFACE_RULES.DEDUCTION_1_FACADE
                  ELSE SURFACE_RULES.DEDUCTION_2_FACADES
         IN  /\ l.type \in {LevelType.FOUNDATION, LevelType.SOUS_SOL}
                  => l.surface = state.terrainArea
             /\ l.type = LevelType.RDC => l.surface = state.terrainArea - d
             /\ l.type = LevelType.FLOOR
                  => l.surface
                       = (state.terrainArea - d) + state.encorbellementM2

\* a terrain smaller than the facade deduction: negative gross surfaces
C17_Witness ==
    /\ Derived
    /\ \E i \in DOMAIN calculatedLevels :
          /\ calculatedLevels[i].type = LevelType.RDC
          /\ calculatedLevels[i].surface < 0
    /\ \E i \in DOMAIN calculatedLevels :
          /\ calculatedLevels[i].type = LevelType.FLOOR
          /\ calculatedLevels[i].surface < 0
          /\ state.encorbellementM2 > 0
    /\ \E i \in DOMAIN calculatedLevels :
          calculatedLevels[i].type = LevelType.FOUNDATION

\* C18: in the per-level rows of the report, every non-foundation level's
\* gros-oeuvre cost is its derived gross surface times its grosOeuvrePrice,
\* and its finition cost that same derived surface times its finitionPrice.
C18_ReportRowsUseDerivedSurface ==
    Exported =>
      \A i \in DOMAIN report.rows :
         ~report.rows[i].isFoundation =>
            /\ report.rows[i].grosOeuvre
                 = calculatedLevels[i].surface
                   * state.levels[i].grosOeuvrePrice * 10
            /\ report.rows[i].finition
                 = calculatedLevels[i].surface
                   * state.levels[i].finitionPrice * 10

C20_ConnectionFeeOnce ==
    Aggregated =>
      /\ totals.grosOeuvre
           = SumSeq([i \in DOMAIN costs |-> costs[i].grosOeuvre])
             + DETAILED_COSTS_REF.RACCORDEMENT_FIXED * 100
      /\ \A i \in DOMAIN costs :
            /\ costs[i].grosOeuvre
                 = costs[i].details.mo + costs[i].details.materials
                   + costs[i].details.equipment
            /\ state.terrainArea = 0 => costs[i].grosOeuvre = 0

\* the list grown by addLevel to six levels, over a positive terrain
C20_Witness ==
    /\ pc = "ui"
    /\ Len(state.levels) >= 6
    /\ state.terrainArea > 0
    /\ \A i \in DOMAIN costs : costs[i].grosOeuvre > 0

\* C21: totalInvestment is landCost + notaryFees + constructionCost
\* + constructionCost * miscFeesPercentage / 100 + miscFeesFixed, with
\* landCost = terrainArea * landPricePerM2; the connection fee enters only
\* through constructionCost.
C21_TotalInvestmentFormula ==
    Aggregated =>
      /\ totals.landCost = state.terrainArea * state.landPricePerM2 * 10
      /\ 100 * (totals.totalInvestment - totals.landCost
                - state.notaryFees * 100 - totals.constructionCost
                - state.miscFeesFixed * 100)
           = totals.constructionCost * state.miscFeesPercentage
      /\ totals.constructionCost
           = SumSeq([i \in DOMAIN costs |-> costs[i].total]) + ConnectionFee

\* a run in which every term of the investment is positive
C21_Witness ==
    /\ Aggregated
    /\ totals.landCost > 0
    /\ state.notaryFees > 0
    /\ state.miscFeesFixed > 0
    /\ state.miscFeesPercentage > 0
    /\ totals.constructionCost > ConnectionFee

\* C22: stateTax is grossProfit * stateTaxPercentage / 100 when
\* grossProfit > 0 and 0 when grossProfit <= 0, and netProfit is
\* grossProfit - stateTax: a loss is never taxed, and netProfit equals
\* grossProfit whenever grossProfit <= 0.
C22_LossIsNeverTaxed ==
    Aggregated =>
      LET g == GCD(100, state.stateTaxPercentage) IN
      /\ totals.grossProfit = totals.totalRevenue - totals.totalInvestment
      /\ totals.grossProfit > 0
           => totals.stateTax * (100 \div g)
                = totals.grossProfit * (state.stateTaxPercentage \div g)
      /\ totals.grossProfit <= 0
           => totals.stateTax = 0 /\ totals.netProfit = totals.grossProfit
      /\ totals.netProfit = totals.grossProfit - totals.stateTax

\* a run that ends in a loss under a positive tax rate
C22_Witness ==
    /\ Aggregated
    /\ totals.grossProfit < 0
    /\ state.stateTaxPercentage > 0
    /\ totals.netProfit < 0

\* C23: for a SOUS_SOL level the labour and the materials are 1.2 times
\* the RDC reference labour and materials scaled by terrainArea / 100, the
\* gros oeuvre is labour + materials with no equipment item, and the
\* finishing cost is 0.
C23_BasementCost ==
    Aggregated =>
      \A i \in DOMAIN costs :
         calculatedLevels[i].type = LevelType.SOUS_SOL =>
            LET c == costs[i]
                rdc == StoreyCost(DETAILED_COSTS_REF.RDC, state.terrainArea)
            IN  /\ 10 * c.details.mo = 12 * rdc.details.mo
                /\ 10 * c.details.materials = 12 * rdc.details.materials
                /\ c.grosOeuvre = c.details.mo + c.details.materials
                /\ c.details.equipment = 0
                /\ c.details.finishing = 0
                /\ c.finition = 0
                /\ \A k \in DOMAIN c.categories :
                      c.categories[k].name \in {"Main d'oeuvre", "Materiaux"}

\* a run over a positive terrain with a basement next to a ground floor
C23_Witness ==
    /\ Aggregated
    /\ state.terrainArea > 0
    /\ \E i \in DOMAIN costs :
          /\ calculatedLevels[i].type = LevelType.SOUS_SOL
          /\ costs[i].grosOeuvre > 0
    /\ \E i \in DOMAIN costs : calculatedLevels[i].type = LevelType.RDC

\* a level whose name holds the word terrasse, in either of its spellings
NamedTerrace(level) ==
    \E k \in DOMAIN level.name :
       level.name[k] \in {"terrasse", "Terrasse"}

\* C24: every level whose name contains 'terrasse', case-insensitively, is
\* costed with the terrace sub-table and never with the FLOOR table: gros
\* oeuvre = scaled terrace labour + materials, equipment 0, finishing =
\* scaled tiling + paint + ironwork; every other level is costed by
\* calculateLevelCost according to its type.
C24_TerraceUsesTerraceTable ==
    Aggregated =>
      \A i \in DOMAIN costs :
         LET l == calculatedLevels[i]
             c == costs[i]
             refGO == DETAILED_COSTS_REF.TERRASSE.GROS_OEUVRE
             refFIN == DETAILED_COSTS_REF.TERRASSE.FINITION
             A == state.terrainArea
         IN  /\ NamedTerrace(l) =>
                  /\ c.details.mo = TimesRatio(refGO.MO, A)
                  /\ c.details.materials
                       = TimesRatio(refGO.BRIQUES + refGO.CIMENT + refGO.FER
                                    + refGO.SABLE, A)
                  /\ c.grosOeuvre = c.details.mo + c.details.materials
                  /\ c.details.equipment = 0
                  /\ c.details.finishing
                       = TimesRatio(refFIN.ZELLIGE + refFIN.PEINTURE
                                    + refFIN.FERRONNERIE, A)
                  /\ c.finition = c.details.finishing
                  /\ A > 0 => c /= StoreyCost(DETAILED_COSTS_REF.FLOOR, A)
             /\ ~NamedTerrace(l) =>
                  c = calculateLevelCost(l.type, A,
                                         DETAILED_COSTS_REF.SURFACE_BASE)

\* a run over a positive terrain with a FLOOR level named Terrasse and a
\* FLOOR level that is no terrace
C24_Witness ==
    /\ Aggregated
    /\ state.terrainArea > 0
    /\ \E i \in DOMAIN costs :
          /\ NamedTerrace(calculatedLevels[i])
          /\ calculatedLevels[i].type = LevelType.FLOOR
    /\ \E i \in DOMAIN costs :
          /\ ~NamedTerrace(calculatedLevels[i])
          /\ calculatedLevels[i].type = LevelType.FLOOR

\* the place of a category in the declared order: labour, materials,
\* equipment, finishing
CategoryRank(name) ==
    CASE name = "Main d'oeuvre" -> 1
      [] name \in {"Materiaux (Ciment, Fer, Pierres...)",
                   "Materiaux Gros Oeuvre", "Materiaux"} -> 2
      [] name = "Eau & Electricite" -> 3
      [] name \in {"Finitions (Zellige, Peinture...)",
                   "Finitions Terrasse"} -> 4
      [] OTHER -> 0

\* C25: in every CostBreakdown the categories appear in the order labour,
\* materials, equipment, finishing, for every level kind and terrain area.
C25_CategoriesInDeclaredOrder ==
    Aggregated =>
      \A i \in DOMAIN costs :
         LET cats == costs[i].categories IN
         /\ \A k \in DOMAIN cats : CategoryRank(cats[k].name) > 0
         /\ \A j, k \in DOMAIN cats :
               j < k => CategoryRank(cats[j].name) < CategoryRank(cats[k].name)

\* a run in which a breakdown holds all four categories and the terrace's
\* holds its three
C25_Witness ==
    /\ Aggregated
    /\ \E i \in DOMAIN costs : Len(costs[i].categories) = 4
    /\ \E i \in DOMAIN costs :
          /\ NamedTerrace(calculatedLevels[i])
          /\ Len(costs[i].categories) = 3

\* C26: the report generator emits the per-level summary table, then the
\* financial recap, then the material estimate, then the per-level detailed
\* breakdown by kind: each of the four sections, in this order.
C26_ReportSectionsInOrder ==
    Exported =>
      report.sections = << "summary table", "financial recap",
                           "material estimate", "detailed breakdown" >>

\* C27: when two removeLevel calls are dispatched from the same rendered
\* state before a re-render, the level list still never drops below 2
\* levels and the RDC level is never removed.
C27_BatchedRemovalsKeepTwoLevels ==
    /\ Len(state.levels) >= 2
    /\ \E i \in DOMAIN state.levels : state.levels[i].type = LevelType.RDC

\* C28: when two addLevel calls are dispatched from the same rendered state
\* before a re-render, the two appended levels still have distinct ids.
C28_BatchedAddsDistinctIds ==
    \A i \in DOMAIN state.levels :
       \A j \in DOMAIN state.levels :
          i < j => state.levels[i].id /= state.levels[j].id

\* the values of a CostBreakdown's categories
CategoryValues(categories) ==
    [i \in DOMAIN categories |-> categories[i].value]

\* C29: for every level kind and terrain area, the CostBreakdown returned by
\* calculateLevelCost or calculateTerrasseCost has total = grosOeuvre +
\* finition, total = mo + materials + equipment + finishing, and the sum of
\* its categories' values equal to total.
C29_BreakdownAddsUp ==
    Costed =>
      \A i \in DOMAIN costs :
         /\ costs[i].total = costs[i].grosOeuvre + costs[i].finition
         /\ costs[i].total = costs[i].details.mo + costs[i].details.materials
                             + costs[i].details.equipment
                             + costs[i].details.finishing
         /\ SumSeq(CategoryValues(costs[i].categories)) = costs[i].total

\* C30: in every reachable state the three slices of the capital breakdown
\* chart (land cost, construction cost, fees and taxes) are defined numbers
\* whose sum equals totals.totalInvestment.
C30_ChartSlicesSumToInvestment ==
    Rendered =>
      /\ \A i \in DOMAIN ChartData(state, totals) :
            ChartData(state, totals)[i].value.kind = "number"
      /\ ChartData(state, totals)[1].value.value
         + ChartData(state, totals)[2].value.value
         + ChartData(state, totals)[3].value.value = totals.totalInvestment

====
